---- MODULE Spec2Model ----
(***************************************************************************)
(* Model of the meo-frontend repository: the chat proxy route, the client  *)
(* helper postChatMessage and the MeOInterface chat/dashboard component.    *)
(***************************************************************************)
EXTENDS Integers, Sequences, FiniteSets, TLC

(***************************************************************************)
(* JavaScript values.  Every value is a record [t, s]: t is the type tag,   *)
(* s the text of a string (or a label of the content of an array).          *)
(***************************************************************************)
Undef == [t |-> "undefined", s |-> ""]

Null == [t |-> "null", s |-> ""]

Str(x) == [t |-> "string", s |-> x]

List(x) == [t |-> "array", s |-> x]

\* JavaScript truthiness, as used by `a || b` and `if (!a)`.
Truthy(v) == ~(v.t \in {"undefined", "null"} \/ (v.t = "string" /\ v.s = ""))

\* a || b
OrElse(a, b) == IF Truthy(a) THEN a ELSE b

\* `${v}` inside a template literal
TemplateStr(v) == IF v.t = "string" THEN v.s ELSE v.t

(***************************************************************************)
(* JSON documents.  A document is a record: t is "object", "null" or        *)
(* "SyntaxError" (the text does not parse), the other fields are the        *)
(* members of the object this model distinguishes (Undef when absent).      *)
(***************************************************************************)
EmptyObject ==
  [t |-> "object", detail |-> Undef, response |-> Undef, session_id |-> Undef,
   retrieved_sources |-> Undef, query |-> Undef, message |-> Undef,
   sessionId |-> Undef, error |-> Undef]

NullDoc == [EmptyObject EXCEPT !.t = "null"]

SyntaxErrorDoc == [EmptyObject EXCEPT !.t = "SyntaxError"]

NoDoc == [EmptyObject EXCEPT !.t = "none"]

\* { detail: d }
DetailObject(d) == [EmptyObject EXCEPT !.detail = d]

\* The texts a browser may post to the proxy.
RequestBodies ==
  { "{\"message\":\"hi\",\"session_id\":\"s1\"}",
    "{\"query\":\"hi\",\"session_id\":\"s1\"}",
    "{\"session_id\":\"s1\"}",
    "{}",
    "{\"message\": ",
    "" }

\* The texts the backend may answer with.
BackendBodies ==
  { "{\"response\":\"hi\",\"session_id\":\"s1\",\"retrieved_sources\":[]}",
    "{ \"response\" : \"hi\" }",
    "{\"detail\":\"Not found\"}",
    "{\"detail\":\"\"}",
    "{\"detail\":[{\"loc\":[\"body\",\"message\"],\"msg\":\"field required\"}]}",
    "{\"error\":\"overloaded\"}",
    "null",
    "Bad Gateway",
    "" }

\* JSON.parse, Request.json() and Response.json() on the texts above.
JSONParse(text) ==
  CASE text = "{\"message\":\"hi\",\"session_id\":\"s1\"}" ->
         [EmptyObject EXCEPT !.message = Str("hi"), !.session_id = Str("s1")]
    [] text = "{\"query\":\"hi\",\"session_id\":\"s1\"}" ->
         [EmptyObject EXCEPT !.query = Str("hi"), !.session_id = Str("s1")]
    [] text = "{\"session_id\":\"s1\"}" ->
         [EmptyObject EXCEPT !.session_id = Str("s1")]
    [] text = "{}" -> EmptyObject
    [] text = "{\"response\":\"hi\",\"session_id\":\"s1\",\"retrieved_sources\":[]}" ->
         [EmptyObject EXCEPT !.response = Str("hi"), !.session_id = Str("s1"),
                             !.retrieved_sources = List("")]
    [] text = "{ \"response\" : \"hi\" }" ->
         [EmptyObject EXCEPT !.response = Str("hi")]
    [] text = "{\"detail\":\"Not found\"}" ->
         [EmptyObject EXCEPT !.detail = Str("Not found")]
    [] text = "{\"detail\":\"\"}" ->
         [EmptyObject EXCEPT !.detail = Str("")]
    [] text = "{\"detail\":[{\"loc\":[\"body\",\"message\"],\"msg\":\"field required\"}]}" ->
         [EmptyObject EXCEPT !.detail = List("field required")]
    [] text = "{\"error\":\"overloaded\"}" ->
         [EmptyObject EXCEPT !.error = Str("overloaded")]
    [] text = "null" -> NullDoc
    [] OTHER -> SyntaxErrorDoc

\* Response.ok
Ok(status) == status >= 200 /\ status <= 299

\* The status codes the backend may answer with.
BackendStatuses == {200, 201, 404, 422, 502}

\* The outcome of a fetch: a reply, or a rejection (network error).
NoReply == [kind |-> "none", status |-> 0, body |-> ""]

NetworkError == [kind |-> "rejected", status |-> 0, body |-> ""]

Replies ==
  {NetworkError} \cup
  [kind : {"reply"}, status : BackendStatuses, body : BackendBodies]

\* The outcome of a handler: an HTTP response (proxy), a returned value or a
\* thrown error (client helper).
NoResult == [kind |-> "none", status |-> 0, body |-> NoDoc, err |-> <<>>]

\* NextResponse.json(body, { status })
NextResponseJson(body, status) ==
  [kind |-> "response", status |-> status, body |-> body, err |-> <<>>]

Returned(data) == [kind |-> "returned", status |-> 0, body |-> data, err |-> <<>>]

Thrown(msg) == [kind |-> "thrown", status |-> 0, body |-> NoDoc, err |-> msg]

\* The values of the environment variable naming the backend base URL.
EnvValues == {Undef, Str(""), Str("http://backend")}

\* crypto.randomUUID()
UUIDs == {"uuid-a", "uuid-b"}

VARIABLES
  env,        \* process.env.NEXT_PUBLIC_MEO_API_URL / MEO_API_URL
  handler,    \* the function that handles the call
  reqBody,    \* text of the inbound request body (proxy)
  args,       \* [query, sessionId] of the call (client helper)
  pc,         \* position of the handler: "start", "fetching", "done"
  outbound,   \* the fetch calls issued, in order
  beReply,    \* what the pending fetch settled with
  result,     \* what the handler answered
  \* --- MeOInterface (components/Chatbot.tsx) ---
  messages,          \* the transcript
  loading,           \* the loading flag
  isActive,          \* whether the first send has happened
  viewMode,          \* 'response' | 'analysis' | 'solution'
  graphData,         \* the chart series
  bioAgeMetrics,     \* the biological-age metrics
  bioAgeTrajectory,  \* the biological-age trajectory series
  pending,           \* the sends whose fetch has not settled yet
  sends,             \* number of sends started
  last,              \* the send completed last: its text and intended mode, the view
                     \* mode before its response, the kind, the mode, the answer
                     \* and the sources of the response, the messages appended for
                     \* it and whether it left the chart series as it was
  \* --- MeOInterface, the revision with tabs (part_011) ---
  activeTab,         \* 'analysis' | 'solutions'
  vendors,           \* the vendor cards of the solutions tab
  \* --- one call of a helper function of Chatbot.tsx ---
  fn,                \* the function called
  fnArg,             \* its argument
  fnResult,          \* <<>> before the call, then <<the value returned>>
  \* --- Chatbot, the session-aware chat component (part_007, part_008) ---
  storage,           \* localStorage item 'meo-session-id' (Null when absent)
  sessionId,         \* the sessionId state of the component
  chatbot,           \* the revision of the component that is mounted
  effectRan,         \* whether the session effect of this page load has run
  reloads            \* number of page reloads

gwVars == <<env, handler, reqBody, args, pc, outbound, beReply, result>>

uiVars == <<messages, loading, isActive, viewMode, graphData, bioAgeMetrics,
            bioAgeTrajectory, pending, sends, last, activeTab, vendors>>

fnVars == <<fn, fnArg, fnResult>>

sessVars == <<storage, sessionId, chatbot, effectRan, reloads>>

vars == <<gwVars, uiVars, fnVars, sessVars>>


(***************************************************************************)
(* The proxy route with the hardcoded backend URL (app/api/chat/route.ts). *)
(***************************************************************************)
\* Response.text(): a body that json() has already read to the end is
\* unusable, and the call rejects with a TypeError.
ResponseText(reply, bodyUsed) ==
  IF bodyUsed THEN [threw |-> TRUE, text |-> ""]
              ELSE [threw |-> FALSE, text |-> reply.body]

BadRequest_status200 ==
  NextResponseJson(DetailObject(Str("Invalid JSON in request body")), 200)

\* the answer to an inbound body that is not JSON
BadRequest ==
  NextResponseJson(DetailObject(Str("Invalid JSON in request body")), 400)

\* the outer catch
InternalServerError ==
  NextResponseJson(DetailObject(Str("Internal Server Error")), 500)

RelayData_dropsSession(data) ==
  NextResponseJson([data EXCEPT !.session_id = Undef], 200)

\* return NextResponse.json(data)
RelayData(data) == NextResponseJson(data, 200)

\* the branch taken when the backend's reply is not ok
RouteErrorResponse(reply) ==
  LET errorData == JSONParse(reply.body)
      \* json() rejects on a body that is not JSON; errorData.detail throws
      \* on null: both enter the inner catch, with the body already read
      fallbackText == ResponseText(reply, TRUE)
  IN IF errorData.t \in {"SyntaxError", "null"}
       THEN IF fallbackText.threw
              THEN InternalServerError
              ELSE NextResponseJson(
                     DetailObject(OrElse(Str(fallbackText.text), Str("Backend API error"))),
                     reply.status)
       ELSE NextResponseJson(
              DetailObject(OrElse(errorData.detail, Str("Backend API error"))),
              reply.status)

\* what POST answers once fetch has settled with `reply`
RouteRelay(reply) ==
  IF reply.kind = "rejected" THEN InternalServerError
  ELSE IF ~Ok(reply.status) THEN RouteErrorResponse(reply)
  ELSE LET data == JSONParse(reply.body)
       IN IF data.t = "SyntaxError" THEN InternalServerError ELSE RelayData(data)

\* POST, up to the await of fetch
POST ==
  /\ handler = "route"
  /\ pc = "start"
  /\ LET body == JSONParse(reqBody)
     IN IF body.t = "SyntaxError"
          THEN /\ result' = BadRequest
               /\ pc' = "done"
               /\ UNCHANGED outbound
          ELSE /\ outbound' = Append(outbound,
                      [url |-> <<"http://3.94.83.253/api/chat">>, body |-> body])
               /\ pc' = "fetching"
               /\ UNCHANGED result
  /\ UNCHANGED <<env, handler, reqBody, args, beReply>>
  /\ UNCHANGED <<uiVars, fnVars, sessVars>>

\* POST, from the moment fetch settles
POST_resume ==
  /\ handler = "route"
  /\ pc = "fetching"
  /\ \E reply \in Replies :
       /\ beReply' = reply
       /\ result' = RouteRelay(reply)
  /\ pc' = "done"
  /\ UNCHANGED <<env, handler, reqBody, args, outbound>>
  /\ UNCHANGED <<uiVars, fnVars, sessVars>>

(***************************************************************************)
(* The proxy route configured by an environment variable (earlier          *)
(* revisions of app/api/chat/route.ts).                                    *)
(***************************************************************************)
ProxyInternalError ==
  NextResponseJson(
    DetailObject(Str("An internal server error occurred in the proxy.")), 500)

EnvRouteRelay(reply) ==
  IF reply.kind = "rejected" THEN ProxyInternalError
  ELSE LET data == JSONParse(reply.body)
       IN IF data.t = "SyntaxError" THEN ProxyInternalError
          ELSE IF ~Ok(reply.status)
            THEN IF data.t = "null" THEN ProxyInternalError
                 ELSE NextResponseJson(
                        DetailObject(OrElse(data.detail, Str("Error from backend service"))),
                        reply.status)
            ELSE RelayData(data)

POST_env ==
  /\ handler = "route_env"
  /\ pc = "start"
  /\ LET body == JSONParse(reqBody)
     IN IF body.t = "SyntaxError" \/ ~Truthy(env)
          THEN /\ result' = ProxyInternalError
               /\ pc' = "done"
               /\ UNCHANGED outbound
          ELSE /\ outbound' = Append(outbound,
                      [url |-> <<TemplateStr(env), "/chat">>,
                       body |-> [EmptyObject EXCEPT !.query = body.query,
                                                    !.session_id = body.session_id]])
               /\ pc' = "fetching"
               /\ UNCHANGED result
  /\ UNCHANGED <<env, handler, reqBody, args, beReply>>
  /\ UNCHANGED <<uiVars, fnVars, sessVars>>

POST_env_resume ==
  /\ handler = "route_env"
  /\ pc = "fetching"
  /\ \E reply \in Replies :
       /\ beReply' = reply
       /\ result' = EnvRouteRelay(reply)
  /\ pc' = "done"
  /\ UNCHANGED <<env, handler, reqBody, args, outbound>>
  /\ UNCHANGED <<uiVars, fnVars, sessVars>>


(***************************************************************************)
(* The client helper postChatMessage (app/lib/api.ts), and the earlier      *)
(* revision of it that falls back to an empty base URL.                     *)
(***************************************************************************)
\* sessionId || crypto.randomUUID()
EffectiveSessionIds(id) ==
  IF Truthy(id) THEN {id} ELSE {Str(u) : u \in UUIDs}

\* postChatMessage after the await of fetch: the value returned or thrown
ApiOutcome(reply) ==
  IF reply.kind = "rejected" THEN Thrown(<<"TypeError: fetch failed">>)
  ELSE LET data == JSONParse(reply.body)
       IN IF data.t = "SyntaxError" THEN Thrown(<<"SyntaxError">>)
          ELSE IF ~Ok(reply.status)
            THEN Thrown(<<"API Error: ",
                          IF data.t = "object" /\ data.detail.t = "string"
                            THEN data.detail.s
                            ELSE "An unknown API error occurred">>)
            ELSE Returned(data)

postChatMessage ==
  /\ handler = "api"
  /\ pc = "start"
  /\ IF ~Truthy(env)
       THEN /\ result' = Thrown(<<"API URL is not configured in .env.local. Please check your configuration.">>)
            /\ pc' = "done"
            /\ UNCHANGED outbound
       ELSE /\ \E effectiveSessionId \in EffectiveSessionIds(args.sessionId) :
                 outbound' = Append(outbound,
                   [url |-> <<TemplateStr(env), "/chat">>,
                    body |-> [EmptyObject EXCEPT !.query = args.query,
                                                 !.session_id = effectiveSessionId]])
            /\ pc' = "fetching"
            /\ UNCHANGED result
  /\ UNCHANGED <<env, handler, reqBody, args, beReply>>
  /\ UNCHANGED <<uiVars, fnVars, sessVars>>

postChatMessage_resume ==
  /\ handler = "api"
  /\ pc = "fetching"
  /\ \E reply \in Replies :
       /\ beReply' = reply
       /\ result' = ApiOutcome(reply)
  /\ pc' = "done"
  /\ UNCHANGED <<env, handler, reqBody, args, outbound>>
  /\ UNCHANGED <<uiVars, fnVars, sessVars>>

\* const API_BASE_URL = process.env.NEXT_PUBLIC_MEO_API_URL || ''
API_BASE_URL == OrElse(env, Str(""))

BaseApiOutcome(reply) ==
  IF reply.kind = "rejected" THEN Thrown(<<"TypeError: fetch failed">>)
  ELSE IF ~Ok(reply.status)
    THEN Thrown(<<"API Error: ", ToString(reply.status), " - ", reply.body>>)
    ELSE LET data == JSONParse(reply.body)
         IN IF data.t = "SyntaxError" THEN Thrown(<<"SyntaxError">>)
            ELSE Returned(data)

postChatMessage_base ==
  /\ handler = "api_base"
  /\ pc = "start"
  /\ \E effectiveSessionId \in EffectiveSessionIds(args.sessionId) :
       outbound' = Append(outbound,
         [url |-> <<TemplateStr(API_BASE_URL), "/api/chat">>,
          body |-> [EmptyObject EXCEPT !.message = args.query,
                                       !.sessionId = effectiveSessionId]])
  /\ pc' = "fetching"
  /\ UNCHANGED <<env, handler, reqBody, args, beReply, result>>
  /\ UNCHANGED <<uiVars, fnVars, sessVars>>

postChatMessage_base_resume ==
  /\ handler = "api_base"
  /\ pc = "fetching"
  /\ \E reply \in Replies :
       /\ beReply' = reply
       /\ result' = BaseApiOutcome(reply)
  /\ pc' = "done"
  /\ UNCHANGED <<env, handler, reqBody, args, outbound>>
  /\ UNCHANGED <<uiVars, fnVars, sessVars>>

NoArgs == [query |-> Undef, sessionId |-> Undef]

\* the number of sends a run of the model starts
MaxSends == 2

(***************************************************************************)
(* MeOInterface (components/Chatbot.tsx): data and pure helpers.            *)
(* Numbers with decimals are held in hundredths (41.9 is 4190).             *)
(***************************************************************************)
NumNull == [t |-> "null", n |-> 0]

Num(x) == [t |-> "number", n |-> x]

kraftCurveDataDefault ==
  << [time |-> "0hr",   glucose |-> 85,  insulin |-> 5],
     [time |-> "0.5hr", glucose |-> 145, insulin |-> 55],
     [time |-> "1hr",   glucose |-> 160, insulin |-> 95],
     [time |-> "1.5hr", glucose |-> 150, insulin |-> 120],
     [time |-> "2hr",   glucose |-> 135, insulin |-> 95],
     [time |-> "2.5hr", glucose |-> 115, insulin |-> 65],
     [time |-> "3hr",   glucose |-> 100, insulin |-> 40],
     [time |-> "3.5hr", glucose |-> 92,  insulin |-> 28],
     [time |-> "4hr",   glucose |-> 88,  insulin |-> 18],
     [time |-> "4.5hr", glucose |-> 85,  insulin |-> 12],
     [time |-> "5hr",   glucose |-> 83,  insulin |-> 8] >>

\* The trajectory points hold `you` multiplied by 17 (the divisor of the
\* step of a generated trajectory), in hundredths.
biologicalAgeDataDefault ==
  << [date |-> "09/22", you |-> 17 * 4193, target |-> 4150],
     [date |-> "09/27", you |-> 17 * 4190, target |-> 4150],
     [date |-> "10/02", you |-> 17 * 4185, target |-> 4150],
     [date |-> "10/07", you |-> 17 * 4180, target |-> 4150],
     [date |-> "10/12", you |-> 17 * 4178, target |-> 4150],
     [date |-> "10/17", you |-> 17 * 4175, target |-> 4150],
     [date |-> "10/22", you |-> 17 * 4172, target |-> 4150],
     [date |-> "10/27", you |-> 17 * 4168, target |-> 4150],
     [date |-> "11/01", you |-> 17 * 4165, target |-> 4150],
     [date |-> "11/06", you |-> 17 * 4162, target |-> 4150],
     [date |-> "11/11", you |-> 17 * 4160, target |-> 4150],
     [date |-> "11/16", you |-> 17 * 4158, target |-> 4150],
     [date |-> "11/21", you |-> 17 * 4155, target |-> 4150],
     [date |-> "11/26", you |-> 17 * 4153, target |-> 4150],
     [date |-> "12/01", you |-> 17 * 4152, target |-> 4150],
     [date |-> "12/06", you |-> 17 * 4151, target |-> 4150],
     [date |-> "12/11", you |-> 17 * 4150, target |-> 4150],
     [date |-> "12/16", you |-> 17 * 4150, target |-> 4150] >>

\* useState<BioAgeMetrics>({ baseline: 41.9, target: 41.5, improvement: 0.4, ... })
bioAgeMetricsDefault ==
  [baseline |-> Num(4190), target |-> Num(4150), improvement |-> Num(40),
   baselineDate |-> NumNull, targetDate |-> NumNull]

\* The gap_solved payloads a graph_data source may carry.
GraphFull ==
  "{\"bio_age_data\":{\"records\":[{\"recordType\":\"TARGET\",\"value\":40.0,\"time\":2},{\"recordType\":\"CLINICAL\",\"value\":45.2,\"time\":1}]},\"kraft_curve_data\":[{\"time\":30,\"analyte\":\"Glucose\",\"value\":140},{\"time\":0,\"analyte\":\"Insulin\",\"value\":6},{\"time\":0,\"analyte\":\"Glucose\",\"value\":90},{\"time\":60,\"analyte\":\"Triglyceride\",\"value\":110}]}"

GraphOnlyClinical ==
  "{\"bio_age_data\":{\"records\":[{\"recordType\":\"CLINICAL\",\"value\":45.2,\"time\":1}]},\"kraft_curve_data\":[]}"

GraphOnlyTarget ==
  "{\"bio_age_data\":{\"records\":[{\"recordType\":\"TARGET\",\"value\":40.0,\"time\":2}]}}"

GraphNoRecords == "{\"bio_age_data\":{\"userid\":\"u1\"}}"

GraphArray == "[{\"time\":\"0hr\",\"glucose\":90,\"insulin\":6}]"

GraphNotJson == "[not json"

NoBioAge == [present |-> FALSE, hasRecords |-> FALSE, records |-> <<>>]

NoGraph == [t |-> "null", bio_age_data |-> NoBioAge,
            hasKraft |-> FALSE, kraft_curve_data |-> <<>>]

\* JSON.parse on the payloads above; t = "SyntaxError" when it throws.
ParseGraph(text) ==
  CASE text = GraphFull ->
         [t |-> "object",
          bio_age_data |->
            [present |-> TRUE, hasRecords |-> TRUE,
             records |-> << [recordType |-> "TARGET", value |-> 4000, time |-> 2],
                            [recordType |-> "CLINICAL", value |-> 4520, time |-> 1] >>],
          hasKraft |-> TRUE,
          kraft_curve_data |->
            << [time |-> 30, analyte |-> "Glucose", value |-> 140],
               [time |-> 0, analyte |-> "Insulin", value |-> 6],
               [time |-> 0, analyte |-> "Glucose", value |-> 90],
               [time |-> 60, analyte |-> "Triglyceride", value |-> 110] >>]
    [] text = GraphOnlyClinical ->
         [t |-> "object",
          bio_age_data |->
            [present |-> TRUE, hasRecords |-> TRUE,
             records |-> << [recordType |-> "CLINICAL", value |-> 4520, time |-> 1] >>],
          hasKraft |-> TRUE,
          kraft_curve_data |-> <<>>]
    [] text = GraphOnlyTarget ->
         [t |-> "object",
          bio_age_data |->
            [present |-> TRUE, hasRecords |-> TRUE,
             records |-> << [recordType |-> "TARGET", value |-> 4000, time |-> 2] >>],
          hasKraft |-> FALSE,
          kraft_curve_data |-> <<>>]
    [] text = GraphNoRecords ->
         [t |-> "object",
          bio_age_data |-> [present |-> TRUE, hasRecords |-> FALSE, records |-> <<>>],
          hasKraft |-> FALSE,
          kraft_curve_data |-> <<>>]
    [] text = GraphArray -> [NoGraph EXCEPT !.t = "array"]
    [] OTHER -> [NoGraph EXCEPT !.t = "SyntaxError"]

\* sources.find(s => s.type === "graph_data"): its index, 0 when none
FindGraphSource(sources) ==
  IF \E i \in 1..Len(sources) : sources[i].type = "graph_data"
    THEN CHOOSE i \in 1..Len(sources) :
           /\ sources[i].type = "graph_data"
           /\ \A j \in 1..(i - 1) : sources[j].type # "graph_data"
    ELSE 0

extractGraphData_parsesAnything(sources) ==
  LET i == FindGraphSource(sources)
  IN IF i = 0 \/ sources[i].gap_solved = "" THEN NoGraph
     ELSE LET parsed == ParseGraph(sources[i].gap_solved)
          IN IF parsed.t = "SyntaxError" THEN ParseGraph(GraphFull) ELSE parsed

\* extractGraphData: the parsed payload, or null (NoGraph)
extractGraphData(sources) ==
  LET i == FindGraphSource(sources)
  IN IF i = 0 \/ sources[i].gap_solved = "" THEN NoGraph
     ELSE LET parsed == ParseGraph(sources[i].gap_solved)
          IN IF parsed.t = "SyntaxError" THEN NoGraph ELSE parsed

\* records.find(r => r.recordType === type): its index, 0 when none
FindRecord(records, type) ==
  IF \E i \in 1..Len(records) : records[i].recordType = type
    THEN CHOOSE i \in 1..Len(records) :
           /\ records[i].recordType = type
           /\ \A j \in 1..(i - 1) : records[j].recordType # type
    ELSE 0

getBioAgeMetrics_truthyValues(data) ==
  LET b == FindRecord(data.records, "CLINICAL")
      g == FindRecord(data.records, "TARGET")
  IN [baseline |-> IF b = 0 THEN NumNull ELSE Num(data.records[b].value),
      target |-> IF g = 0 THEN NumNull ELSE Num(data.records[g].value),
      improvement |-> IF b # 0 /\ g # 0 /\ data.records[b].value # 0
                          /\ data.records[g].value # 0
                        THEN Num(data.records[b].value - data.records[g].value)
                        ELSE NumNull,
      baselineDate |-> IF b = 0 THEN NumNull ELSE Num(data.records[b].time),
      targetDate |-> IF g = 0 THEN NumNull ELSE Num(data.records[g].time)]

\* getBioAgeMetrics, for data that has a records list
getBioAgeMetrics(data) ==
  LET b == FindRecord(data.records, "CLINICAL")
      g == FindRecord(data.records, "TARGET")
  IN [baseline |-> IF b = 0 THEN NumNull ELSE Num(data.records[b].value),
      target |-> IF g = 0 THEN NumNull ELSE Num(data.records[g].value),
      improvement |-> IF b # 0 /\ g # 0
                        THEN Num(data.records[b].value - data.records[g].value)
                        ELSE NumNull,
      baselineDate |-> IF b = 0 THEN NumNull ELSE Num(data.records[b].time),
      targetDate |-> IF g = 0 THEN NumNull ELSE Num(data.records[g].time)]

generateBioAgeTrajectory_ignoresTarget(metrics) ==
  IF metrics.baseline.t = "null"
    THEN biologicalAgeDataDefault
    ELSE [i \in 1..18 |->
            [date |-> ToString(5 * (i - 1)),
             you |-> 17 * metrics.baseline.n
                       - (metrics.baseline.n - metrics.target.n) * (i - 1),
             target |-> metrics.target.n]]

\* generateBioAgeTrajectory: 18 points from baseline to target, five days
\* apart; `date` is the number of days after the start date
generateBioAgeTrajectory(metrics) ==
  IF metrics.baseline.t = "null" \/ metrics.target.t = "null"
    THEN biologicalAgeDataDefault
    ELSE [i \in 1..18 |->
            [date |-> ToString(5 * (i - 1)),
             you |-> 17 * metrics.baseline.n
                       - (metrics.baseline.n - metrics.target.n) * (i - 1),
             target |-> metrics.target.n]]

\* timeMap after data.forEach: one entry per timestamp, in the order in
\* which the timestamps first occur; an entry holds the Insulin and the
\* Glucose value set last, each Undef until it is set
RECURSIVE TimeMap(_, _)
TimeMap(data, map) ==
  IF data = <<>> THEN map
  ELSE LET point == Head(data)
           withEntry ==
             IF \E k \in 1..Len(map) : map[k].time = point.time
               THEN map
               ELSE Append(map, [time |-> point.time, Insulin |-> NumNull,
                                 Glucose |-> NumNull])
           k == CHOOSE j \in 1..Len(withEntry) : withEntry[j].time = point.time
           set ==
             IF point.analyte = "Insulin"
               THEN [withEntry EXCEPT ![k].Insulin = Num(point.value)]
             ELSE IF point.analyte = "Glucose"
               THEN [withEntry EXCEPT ![k].Glucose = Num(point.value)]
             ELSE withEntry
       IN TimeMap(Tail(data), set)

\* entries.sort((a, b) => a.time - b.time)
RECURSIVE SortByTime(_)
SortByTime(entries) ==
  IF entries = <<>> THEN <<>>
  ELSE LET k == CHOOSE j \in 1..Len(entries) :
                  /\ \A i \in 1..Len(entries) : entries[j].time <= entries[i].time
                  /\ \A i \in 1..(j - 1) : entries[i].time # entries[j].time
       IN <<entries[k]>> \o
          SortByTime(SubSeq(entries, 1, k - 1) \o SubSeq(entries, k + 1, Len(entries)))

\* `${(index * 0.5).toFixed(1)}hr`
TimeLabel(index) ==
  <<"0.0hr", "0.5hr", "1.0hr", "1.5hr", "2.0hr", "2.5hr", "3.0hr", "3.5hr">>[index + 1]

transformKraftForChart_unsorted(data) ==
  LET sorted == TimeMap(data, <<>>)
  IN [k \in 1..Len(sorted) |->
        [time |-> TimeLabel(k - 1),
         glucose |-> IF sorted[k].Glucose.t = "null" THEN 0 ELSE sorted[k].Glucose.n,
         insulin |-> IF sorted[k].Insulin.t = "null" THEN 0 ELSE sorted[k].Insulin.n]]

transformKraftForChart(data) ==
  LET sorted == SortByTime(TimeMap(data, <<>>))
  IN [k \in 1..Len(sorted) |->
        [time |-> TimeLabel(k - 1),
         glucose |-> IF sorted[k].Glucose.t = "null" THEN 0 ELSE sorted[k].Glucose.n,
         insulin |-> IF sorted[k].Insulin.t = "null" THEN 0 ELSE sorted[k].Insulin.n]]

(***************************************************************************)
(* MeOInterface: messages, responses and the mode decision.                 *)
(***************************************************************************)
\* the texts of the three action chips of the initial view
ActionChips == {"Analyze my Kraft Curve", "Find a Specialist", "Upload Lab Results"}

\* the texts a user types into the input
TypedInputs == {"hello", "What did the analysis find?", "   "}

\* the words, among those the handler looks for, that
\* messageText.toLowerCase() includes
KeywordsIn(messageText) ==
  CASE messageText = "Analyze my Kraft Curve" -> {"kraft", "analyze"}
    [] messageText = "Find a Specialist" -> {"specialist", "find"}
    [] messageText = "What did the analysis find?" -> {"analysis", "find"}
    [] OTHER -> {}

\* !messageText.trim()
TrimIsEmpty(messageText) == messageText \in {"", "   "}

\* the mode the text of the message asks for; the current mode when it asks
\* for none
IntendedMode(messageText, current) ==
  IF KeywordsIn(messageText) \cap {"kraft", "analyze", "analysis"} # {}
    THEN "analysis"
  ELSE IF KeywordsIn(messageText) \cap {"specialist", "find"} # {}
    THEN "solution"
  ELSE current

ContentSource == [type |-> "content", gap_solved |-> "", title |-> "Kraft 1975"]

VendorSource == [type |-> "vendor_card", gap_solved |-> "", title |-> "Taylor Made Rehab"]

GraphSource(payload) == [type |-> "graph_data", gap_solved |-> payload, title |-> ""]

SourceLists ==
  { <<>>,
    <<ContentSource>>,
    <<VendorSource>>,
    <<VendorSource, GraphSource(GraphFull)>>,
    <<GraphSource(GraphFull)>>,
    <<GraphSource(GraphOnlyClinical)>>,
    <<GraphSource(GraphOnlyTarget)>>,
    <<GraphSource(GraphNoRecords)>>,
    <<GraphSource(GraphArray)>>,
    <<GraphSource(GraphNotJson)>> }

Modes == {"response", "analysis", "solution"}

\* What the fetch of a send settles with: a rejection, a body that is not
\* JSON, or a JSON object (retrieved_sources is <<>> when the member is
\* absent, response and mode are Undef when absent).
FetchRejected ==
  [kind |-> "rejected", ok |-> FALSE, response |-> Undef, mode |-> Undef,
   retrieved_sources |-> <<>>]

BodyNotJson == [FetchRejected EXCEPT !.kind = "notjson"]

\* the reply to a request the backend or the proxy refuses: a status that
\* is not 2xx (res.ok is false) with a body such as { detail: "Not found" }
ErrorBody == [FetchRejected EXCEPT !.kind = "json"]

\* the answer texts of the backend: one plain, one that speaks of a chart
PlainAnswer == "Here is what I found."

ChartAnswer == "Your Glucose curve shows a late insulin spike."

\* the words, among those the handler of the revision with tabs looks for,
\* that botResponse.toLowerCase() includes
AnswerKeywordsIn(text) ==
  CASE text = ChartAnswer -> {"glucose", "curve", "insulin", "spike"}
    [] OTHER -> {}

\* the lists of sources that come with the explicit mode analysis
GraphLists ==
  { <<GraphSource(GraphFull)>>, <<GraphSource(GraphNoRecords)>>,
    <<GraphSource(GraphNotJson)>> }

\* every list of sources comes without mode; the explicit modes and the
\* answer that speaks of a chart come with some of the lists
Answers ==
  [kind : {"json"}, ok : {TRUE}, response : {Str(PlainAnswer)},
   mode : {Undef},
   retrieved_sources : SourceLists]
  \cup
  [kind : {"json"}, ok : {TRUE}, response : {Str(PlainAnswer)},
   mode : {Str("analysis")},
   retrieved_sources : {<<>>} \cup GraphLists]
  \cup
  [kind : {"json"}, ok : {TRUE}, response : {Str(PlainAnswer)},
   mode : {Str("response"), Str("solution")},
   retrieved_sources : {<<>>, <<VendorSource>>}]
  \cup
  [kind : {"json"}, ok : {TRUE}, response : {Str(ChartAnswer)},
   mode : {Undef},
   retrieved_sources : {<<>>, <<VendorSource>>}]

Outcomes == {FetchRejected, BodyNotJson, ErrorBody} \cup Answers

\* the types of the sources of a response
SourceTypes(sources) == {sources[k].type : k \in 1..Len(sources)}

FallbackMessage ==
  [role |-> "assistant",
   content |-> Str("I'm having trouble connecting. Please check your internet connection or try again later.")]

AppliedViewMode_intentFirst(data, intendedMode, current) ==
  IF intendedMode # "response" THEN intendedMode
  ELSE IF data.mode \in {Str("analysis"), Str("solution")} THEN data.mode.s
  ELSE current

AppliedViewMode_revertsToDefault(data, intendedMode, current) ==
  IF data.mode \in {Str("analysis"), Str("solution")} THEN data.mode.s
  ELSE intendedMode

AppliedViewMode_obeysBackend(data, intendedMode, current) ==
  IF data.mode # Undef THEN data.mode.s
  ELSE IF intendedMode # "response" THEN intendedMode
  ELSE current

\* the view mode after the response: the backend's mode when it is analysis
\* or solution, else the intended mode unless that is 'response'
AppliedViewMode(data, intendedMode, current) ==
  IF data.mode \in {Str("analysis"), Str("solution")} THEN data.mode.s
  ELSE IF intendedMode # "response" THEN intendedMode
  ELSE current

\* const finalMode = data.mode || intendedMode
FinalMode(data, intendedMode) == OrElse(data.mode, Str(intendedMode)).s

\* The graph step of the response: whether it threw, and the chart and
\* biological-age state it leaves.
GraphStep(data, intendedMode) ==
  LET graphDataParsed == extractGraphData(data.retrieved_sources)
      bio == graphDataParsed.bio_age_data
      metrics == getBioAgeMetrics(bio)
      unchanged == [threw |-> FALSE, metrics |-> bioAgeMetrics,
                    trajectory |-> bioAgeTrajectory, graph |-> graphData]
  IN IF FinalMode(data, intendedMode) # "analysis" \/ graphDataParsed.t = "null"
       THEN unchanged
     ELSE IF bio.present /\ ~bio.hasRecords
       \* data.records is undefined: data.records.find throws a TypeError
       THEN [unchanged EXCEPT !.threw = TRUE]
     ELSE [threw |-> FALSE,
           metrics |-> IF bio.present THEN metrics ELSE bioAgeMetrics,
           trajectory |-> IF bio.present THEN generateBioAgeTrajectory(metrics)
                                         ELSE bioAgeTrajectory,
           graph |-> IF graphDataParsed.hasKraft
                        /\ Len(graphDataParsed.kraft_curve_data) > 0
                       THEN transformKraftForChart(graphDataParsed.kraft_curve_data)
                       ELSE graphData]

NoLast == [messageText |-> "", intendedMode |-> "response", prior |-> "response",
           kind |-> "none", ok |-> FALSE, mode |-> Undef, types |-> {},
           response |-> Undef, sources |-> <<>>,
           appended |-> <<>>, graphKept |-> TRUE]

\* a transcript that is replaced by its newest message
AppendMessage_replaces(prev, message) == <<message>>

\* setMessages(prev => [...prev, message])
AppendMessage(prev, message) == Append(prev, message)

\* the synchronous part of handleSendMessage, for a text that is not blank
StartSend(messageText) ==
  /\ messages' = AppendMessage(messages, [role |-> "user", content |-> Str(messageText)])
  /\ loading' = TRUE
  /\ isActive' = TRUE
  /\ pending' = Append(pending,
        [messageText |-> messageText, session_id |-> "demo_session",
         intendedMode |-> IntendedMode(messageText, viewMode)])
  /\ sends' = sends + 1
  /\ UNCHANGED <<viewMode, graphData, bioAgeMetrics, bioAgeTrajectory, last,
                 activeTab, vendors>>

\* form submit or Enter key, with `messageText` in the input
handleSendMessage ==
  /\ sends < MaxSends
  /\ \E messageText \in TypedInputs :
       IF TrimIsEmpty(messageText)
         THEN UNCHANGED uiVars
         ELSE StartSend(messageText)
  /\ UNCHANGED <<gwVars, fnVars, sessVars>>

\* click on an action chip (the chips are rendered in the initial view only)
handleActionClick ==
  /\ sends < MaxSends
  /\ ~isActive
  /\ \E text \in ActionChips : StartSend(text)
  /\ UNCHANGED <<gwVars, fnVars, sessVars>>

\* handleSendMessage from the moment the fetch of pending send i settles
\* with `data`
HandleResponse(i, data) ==
  LET p == pending[i]
      step == GraphStep(data, p.intendedMode)
      answer == [role |-> "assistant", content |-> data.response]
  IN /\ pending' = SubSeq(pending, 1, i - 1) \o SubSeq(pending, i + 1, Len(pending))
     /\ loading' = FALSE
     /\ IF data.kind # "json"
          THEN /\ messages' = AppendMessage(messages, FallbackMessage)
               /\ UNCHANGED <<viewMode, graphData, bioAgeMetrics, bioAgeTrajectory>>
          ELSE /\ messages' = IF step.threw
                                THEN AppendMessage(AppendMessage(messages, answer),
                                                   FallbackMessage)
                                ELSE AppendMessage(messages, answer)
               /\ viewMode' = AppliedViewMode(data, p.intendedMode, viewMode)
               /\ graphData' = step.graph
               /\ bioAgeMetrics' = step.metrics
               /\ bioAgeTrajectory' = step.trajectory
     /\ last' = [messageText |-> p.messageText, intendedMode |-> p.intendedMode,
                 prior |-> viewMode, kind |-> data.kind, ok |-> data.ok,
                 mode |-> data.mode,
                 types |-> SourceTypes(data.retrieved_sources),
                 response |-> data.response, sources |-> data.retrieved_sources,
                 appended |-> SubSeq(messages', Len(messages) + 1, Len(messages')),
                 graphKept |-> (graphData' = graphData)]
     /\ UNCHANGED <<isActive, sends, activeTab, vendors>>
     /\ UNCHANGED <<gwVars, fnVars, sessVars>>

handleSendMessage_resume ==
  \E i \in 1..Len(pending), data \in Outcomes : HandleResponse(i, data)

\* the ages the gauge of the analysis view is given:
\* bioAgeMetrics.baseline ?? 41.9 and bioAgeMetrics.target ?? 41.5
GaugeBiologicalAge ==
  IF bioAgeMetrics.baseline.t = "null" THEN 4190 ELSE bioAgeMetrics.baseline.n

GaugeTargetAge ==
  IF bioAgeMetrics.target.t = "null" THEN 4150 ELSE bioAgeMetrics.target.n

\* the built-in vendors, by name
mockVendors ==
  <<"Taylor Made Rehab", "Metabolic Health Institute", "Glucose Optimization Clinic">>

\* the names of the cards the solution view renders: mockVendors.map(...)
VendorsShown == IF viewMode = "solution" THEN mockVendors ELSE <<>>

(***************************************************************************)
(* MeOInterface, the revision with an Analysis and a Solutions tab          *)
(* (part_011).                                                              *)
(***************************************************************************)
VendorSource2 == [type |-> "vendor_card", gap_solved |-> "", title |-> "MetaBalance Clinic"]

\* what the fetch of a send of this revision settles with
TabsOutcomes ==
  Outcomes \cup
  [kind : {"json"}, ok : {TRUE}, response : {Str(PlainAnswer)}, mode : {Undef},
   retrieved_sources : { <<ContentSource, VendorSource2, VendorSource>>,
                         <<VendorSource, GraphSource(GraphFull), VendorSource2>> }]

\* data.retrieved_sources?.filter(s => s.type === 'vendor_card') || []
RECURSIVE FoundVendors(_)
FoundVendors(sources) ==
  IF sources = <<>> THEN <<>>
  ELSE IF Head(sources).type = "vendor_card"
    THEN <<Head(sources)>> \o FoundVendors(Tail(sources))
    ELSE FoundVendors(Tail(sources))

\* the message of the catch block
TabsFallbackMessage == [FallbackMessage EXCEPT !.role = "bot"]

\* the synchronous part of handleSendMessage, for a text that is not blank
TabsStartSend(messageText) ==
  /\ messages' = Append(messages, [role |-> "user", content |-> Str(messageText)])
  /\ loading' = TRUE
  /\ isActive' = TRUE
  /\ pending' = Append(pending,
        [messageText |-> messageText, session_id |-> "demo_session",
         intendedMode |-> "response"])
  /\ sends' = sends + 1
  /\ UNCHANGED <<viewMode, graphData, bioAgeMetrics, bioAgeTrajectory, last,
                 activeTab, vendors>>

\* form submit, with `messageText` in the input
Tabs_handleSendMessage ==
  /\ sends < MaxSends
  /\ \E messageText \in TypedInputs :
       IF TrimIsEmpty(messageText)
         THEN UNCHANGED uiVars
         ELSE TabsStartSend(messageText)
  /\ UNCHANGED <<gwVars, fnVars, sessVars>>

\* click on an action chip (the chips are rendered in the initial view only)
Tabs_handleActionClick ==
  /\ sends < MaxSends
  /\ ~isActive
  /\ \E text \in ActionChips : TabsStartSend(text)
  /\ UNCHANGED <<gwVars, fnVars, sessVars>>

\* click on the Analysis or the Solutions tab button
Tabs_setActiveTab ==
  /\ isActive
  /\ \E tab \in {"analysis", "solutions"} : activeTab' = tab
  /\ UNCHANGED <<messages, loading, isActive, viewMode, graphData, bioAgeMetrics,
                 bioAgeTrajectory, pending, sends, last, vendors>>
  /\ UNCHANGED <<gwVars, fnVars, sessVars>>

\* handleSendMessage from the moment the fetch of pending send i settles
\* with `data`
TabsHandleResponse(i, data) ==
  LET p == pending[i]
      foundVendors == FoundVendors(data.retrieved_sources)
      \* botResponse.toLowerCase() on a response without `response` member
      threw == Len(foundVendors) = 0 /\ data.response.t # "string"
      bot == [role |-> "bot", content |-> data.response]
  IN /\ pending' = SubSeq(pending, 1, i - 1) \o SubSeq(pending, i + 1, Len(pending))
     /\ loading' = FALSE
     /\ IF data.kind # "json" \/ threw
          THEN /\ messages' = Append(messages, TabsFallbackMessage)
               /\ UNCHANGED <<activeTab, vendors>>
          ELSE /\ messages' = Append(messages, bot)
               /\ IF Len(foundVendors) > 0
                    THEN /\ vendors' = foundVendors
                         /\ activeTab' = "solutions"
                    ELSE /\ vendors' = vendors
                         /\ activeTab' = IF AnswerKeywordsIn(data.response.s) # {}
                                            THEN "analysis"
                                            ELSE activeTab
     /\ last' = [messageText |-> p.messageText, intendedMode |-> p.intendedMode,
                 prior |-> activeTab, kind |-> data.kind, ok |-> data.ok,
                 mode |-> data.mode,
                 types |-> SourceTypes(data.retrieved_sources),
                 response |-> data.response, sources |-> data.retrieved_sources,
                 appended |-> SubSeq(messages', Len(messages) + 1, Len(messages')),
                 graphKept |-> TRUE]
     /\ UNCHANGED <<isActive, sends, viewMode, graphData, bioAgeMetrics,
                    bioAgeTrajectory>>
     /\ UNCHANGED <<gwVars, fnVars, sessVars>>

Tabs_handleSendMessage_resume ==
  \E i \in 1..Len(pending), data \in TabsOutcomes : TabsHandleResponse(i, data)

\* the cards the Solutions tab renders: the vendors of the state, or two
\* built-in cards when there are none
TabsVendorsShown ==
  IF Len(vendors) > 0 THEN vendors
  ELSE << [type |-> "vendor_card", gap_solved |-> "", title |-> "Taylor Made Rehab"],
          [type |-> "vendor_card", gap_solved |-> "", title |-> "MetaBalance Clinic"] >>

GatewayIdle ==
  /\ env = Undef
  /\ handler = "none"
  /\ reqBody = ""
  /\ args = NoArgs
  /\ pc = "idle"
  /\ outbound = <<>>
  /\ beReply = NoReply
  /\ result = NoResult

\* the state of MeOInterface when it mounts
Mounted ==
  /\ messages = <<>>
  /\ loading = FALSE
  /\ isActive = FALSE
  /\ viewMode = "response"
  /\ graphData = kraftCurveDataDefault
  /\ bioAgeMetrics = bioAgeMetricsDefault
  /\ bioAgeTrajectory = biologicalAgeDataDefault
  /\ pending = <<>>
  /\ sends = 0
  /\ last = NoLast
  /\ activeTab = "analysis"
  /\ vendors = <<>>

\* no helper function is being called
NoCall ==
  /\ fn = "none"
  /\ fnArg = <<>>
  /\ fnResult = <<>>

\* no session-aware Chatbot is mounted
NoSession ==
  /\ storage = Null
  /\ sessionId = Undef
  /\ chatbot = "none"
  /\ effectRan = FALSE
  /\ reloads = 0

Init == GatewayIdle /\ Mounted /\ NoCall /\ NoSession

Next ==
  \/ handleSendMessage
  \/ handleActionClick
  \/ handleSendMessage_resume

Spec == Init /\ [][Next]_vars

TabsNext ==
  \/ Tabs_handleSendMessage
  \/ Tabs_handleActionClick
  \/ Tabs_setActiveTab
  \/ Tabs_handleSendMessage_resume

SpecTabs == Init /\ [][TabsNext]_vars

(***************************************************************************)
(* MeOInterface under a burst of sends: one more send than in Spec, and     *)
(* only the replies that carry neither a mode nor sources.                  *)
(***************************************************************************)
MaxBurstSends == 3

\* the outcomes without mode, without sources and without answer keyword
BurstOutcomes ==
  {data \in Outcomes : /\ data.mode = Undef
                       /\ data.retrieved_sources = <<>>
                       /\ data.response # Str(ChartAnswer)}

\* form submit or Enter key, with `messageText` in the input
Burst_handleSendMessage ==
  /\ sends < MaxBurstSends
  /\ \E messageText \in TypedInputs :
       IF TrimIsEmpty(messageText)
         THEN UNCHANGED uiVars
         ELSE StartSend(messageText)
  /\ UNCHANGED <<gwVars, fnVars, sessVars>>

\* click on an action chip (the chips are rendered in the initial view only)
Burst_handleActionClick ==
  /\ sends < MaxBurstSends
  /\ ~isActive
  /\ \E text \in ActionChips : StartSend(text)
  /\ UNCHANGED <<gwVars, fnVars, sessVars>>

\* the fetch of one of the pending sends settles
Burst_handleSendMessage_resume ==
  \E i \in 1..Len(pending), data \in BurstOutcomes : HandleResponse(i, data)

BurstNext ==
  \/ Burst_handleSendMessage
  \/ Burst_handleActionClick
  \/ Burst_handleSendMessage_resume

SpecBurst == Init /\ [][BurstNext]_vars

(***************************************************************************)
(* Chatbot, the session-aware chat component: the revision that refuses a   *)
(* submit until the session identifier is set (part_007) and the revision   *)
(* that refuses it only while loading (part_008).  Both call the client    *)
(* helper postChatMessage of app/lib/api.ts.                                *)
(***************************************************************************)
MaxChatSends == 2

MaxReloads == 1

Chatbots == {"part_007", "part_008"}

\* useState<string>('') in part_007, useState<string | null>(null) in part_008
InitialSessionId(revision) == IF revision = "part_007" THEN Str("") ELSE Null

\* the guard of handleSendMessage: the submit is ignored
SubmitIgnored(revision, input) ==
  \/ TrimIsEmpty(input)
  \/ loading
  \/ (revision = "part_007" /\ ~Truthy(sessionId))

\* what the backend may answer a chat request with
ChatReplies ==
  { NetworkError,
    [kind |-> "reply", status |-> 200,
     body |-> "{\"response\":\"hi\",\"session_id\":\"s1\",\"retrieved_sources\":[]}"],
    [kind |-> "reply", status |-> 404, body |-> "{\"detail\":\"Not found\"}"],
    [kind |-> "reply", status |-> 200, body |-> "Bad Gateway"] }

\* the message of the catch block
ChatFallback ==
  [text |-> Str("Sorry, I am having trouble connecting. Please try again."),
   sender |-> "meo"]

\* the message of the try block: response.response in part_007 and
\* response.answer in part_008 (a member none of the bodies above has)
ChatAnswer(revision, data) ==
  [text |-> IF revision = "part_007" THEN data.response ELSE Undef,
   sender |-> "meo"]

\* the effect that runs once after the component has mounted
Chat_useEffect ==
  /\ chatbot \in Chatbots
  /\ ~effectRan
  /\ \E u \in UUIDs :
       LET storedSessionId == IF Truthy(storage) THEN storage ELSE Str(u)
       IN /\ storage' = storedSessionId
          /\ sessionId' = storedSessionId
  /\ effectRan' = TRUE
  /\ UNCHANGED <<chatbot, reloads>>
  /\ UNCHANGED <<gwVars, uiVars, fnVars>>

\* form submit with `input` in the text field, up to the await of
\* postChatMessage(currentInput, sessionId)
Chat_handleSendMessage ==
  /\ chatbot \in Chatbots
  /\ sends < MaxChatSends
  /\ \E input \in TypedInputs :
       IF SubmitIgnored(chatbot, input)
         THEN UNCHANGED <<messages, loading, pending, sends, outbound>>
         ELSE /\ messages' = Append(messages, [text |-> Str(input), sender |-> "user"])
              /\ loading' = TRUE
              /\ sends' = sends + 1
              /\ IF ~Truthy(env)
                   THEN /\ pending' = Append(pending, [query |-> input, requested |-> FALSE])
                        /\ UNCHANGED outbound
                   ELSE /\ pending' = Append(pending, [query |-> input, requested |-> TRUE])
                        /\ \E effectiveSessionId \in EffectiveSessionIds(sessionId) :
                             outbound' = Append(outbound,
                               [url |-> <<TemplateStr(env), "/chat">>,
                                body |-> [EmptyObject EXCEPT
                                            !.query = Str(input),
                                            !.session_id = effectiveSessionId]])
  /\ UNCHANGED <<env, handler, reqBody, args, pc, beReply, result>>
  /\ UNCHANGED <<isActive, viewMode, graphData, bioAgeMetrics, bioAgeTrajectory,
                 last, activeTab, vendors>>
  /\ UNCHANGED <<fnVars, sessVars>>

\* handleSendMessage from the moment postChatMessage returns or throws
Chat_handleSendMessage_resume ==
  /\ chatbot \in Chatbots
  /\ pending # <<>>
  /\ \E reply \in ChatReplies :
       LET outcome == IF Head(pending).requested
                        THEN ApiOutcome(reply)
                        ELSE Thrown(<<"API URL is not configured in .env.local. Please check your configuration.">>)
       IN messages' = Append(messages,
                             IF outcome.kind = "returned"
                               THEN ChatAnswer(chatbot, outcome.body)
                               ELSE ChatFallback)
  /\ loading' = FALSE
  /\ pending' = Tail(pending)
  /\ UNCHANGED <<sends, isActive, viewMode, graphData, bioAgeMetrics,
                 bioAgeTrajectory, last, activeTab, vendors>>
  /\ UNCHANGED <<gwVars, fnVars, sessVars>>

\* the page is loaded again: the component mounts anew, what is in
\* localStorage stays, the reply to a request of the old page is dropped
Chat_reload ==
  /\ chatbot \in Chatbots
  /\ reloads < MaxReloads
  /\ reloads' = reloads + 1
  /\ messages' = <<>>
  /\ loading' = FALSE
  /\ pending' = <<>>
  /\ sessionId' = InitialSessionId(chatbot)
  /\ effectRan' = FALSE
  /\ UNCHANGED <<storage, chatbot>>
  /\ UNCHANGED <<sends, isActive, viewMode, graphData, bioAgeMetrics,
                 bioAgeTrajectory, last, activeTab, vendors>>
  /\ UNCHANGED <<gwVars, fnVars>>

\* the first load of the page, by a new or a returning visitor
SessionInit ==
  /\ env \in {Undef, Str("http://backend")}
  /\ handler = "none"
  /\ reqBody = ""
  /\ args = NoArgs
  /\ pc = "idle"
  /\ outbound = <<>>
  /\ beReply = NoReply
  /\ result = NoResult
  /\ Mounted
  /\ NoCall
  /\ chatbot \in Chatbots
  /\ storage \in {Null} \cup {Str(u) : u \in UUIDs}
  /\ sessionId = InitialSessionId(chatbot)
  /\ effectRan = FALSE
  /\ reloads = 0

SessionNext ==
  \/ Chat_useEffect
  \/ Chat_handleSendMessage
  \/ Chat_handleSendMessage_resume
  \/ Chat_reload

SpecSession == SessionInit /\ [][SessionNext]_vars

(***************************************************************************)
(* One call of a helper function of Chatbot.tsx, from every argument.       *)
(***************************************************************************)
MaxRecords == 3

MaxSamples == 3

\* the records of a bio_age_data object (values in hundredths)
BioAgeRecords ==
  [recordType : {"CLINICAL", "TARGET", "PREDICTED"}, value : {0, 4000, 4520},
   time : {1}]

\* the samples of a kraft_curve_data list
KraftSamples ==
  [time : {0, 30, 60}, analyte : {"Glucose", "Insulin", "Triglyceride"},
   value : {1, 2}]

\* the lists of at most n elements of S
ListsUpTo(S, n) == UNION {[1..k -> S] : k \in 0..n}

HelpersInit ==
  /\ GatewayIdle
  /\ Mounted
  /\ \/ fn = "getBioAgeMetrics" /\ fnArg \in ListsUpTo(BioAgeRecords, MaxRecords)
     \/ fn = "transformKraftForChart" /\ fnArg \in ListsUpTo(KraftSamples, MaxSamples)
  /\ fnResult = <<>>
  /\ NoSession

Call_getBioAgeMetrics ==
  /\ fn = "getBioAgeMetrics"
  /\ fnResult = <<>>
  /\ fnResult' = <<getBioAgeMetrics([records |-> fnArg])>>
  /\ UNCHANGED <<fn, fnArg, gwVars, uiVars, sessVars>>

Call_transformKraftForChart ==
  /\ fn = "transformKraftForChart"
  /\ fnResult = <<>>
  /\ fnResult' = <<transformKraftForChart(fnArg)>>
  /\ UNCHANGED <<fn, fnArg, gwVars, uiVars, sessVars>>

HelpersNext ==
  \/ Call_getBioAgeMetrics
  \/ Call_transformKraftForChart

SpecHelpers == HelpersInit /\ [][HelpersNext]_vars

(***************************************************************************)
(* One call of one handler, from every input.                               *)
(***************************************************************************)
Proxies == {"route", "route_env"}

Helpers == {"api", "api_base"}

GatewayInit ==
  /\ env \in EnvValues
  /\ handler \in Proxies \cup Helpers
  /\ reqBody \in (IF handler \in Proxies THEN RequestBodies ELSE {""})
  /\ args \in (IF handler \in Helpers
                 THEN [query : {Str("hi")}, sessionId : {Null, Str("s1")}]
                 ELSE {NoArgs})
  /\ pc = "start"
  /\ outbound = <<>>
  /\ beReply = NoReply
  /\ result = NoResult
  /\ Mounted
  /\ NoCall
  /\ NoSession

GatewayNext ==
  \/ POST
  \/ POST_resume
  \/ POST_env
  \/ POST_env_resume
  \/ postChatMessage
  \/ postChatMessage_resume
  \/ postChatMessage_base
  \/ postChatMessage_base_resume

SpecGateway == GatewayInit /\ [][GatewayNext]_vars


(***************************************************************************)
(* Claims about the proxy and the client helper, stated over SpecGateway.  *)
(***************************************************************************)
ProxyDone == pc = "done" /\ handler \in Proxies

BackendFailed == beReply.kind = "reply" /\ ~Ok(beReply.status)

BackendSucceeded == beReply.kind = "reply" /\ Ok(beReply.status)

NonEmptyStringDetail(body) ==
  body.t = "object" /\ body.detail.t = "string" /\ body.detail.s # ""

\* C1: for every backend reply with a non-2xx status, whatever its body, the
\* status of the proxy's response equals the backend's status.
C1_StatusRelayed ==
  (ProxyDone /\ BackendFailed) => result.status = beReply.status

\* C2 as stated: for every backend reply with a 2xx status the proxy answers
\* with a success status and a body identical to the backend's body.
C2_EverySuccessRelayed ==
  (ProxyDone /\ BackendSucceeded) =>
     /\ Ok(result.status)
     /\ result.body = JSONParse(beReply.body)
     /\ result.body.t # "SyntaxError"

\* C2 amended: for every backend reply with a 2xx status whose body is valid
\* JSON, the proxy answers with a success status and with the value parsed
\* from the backend's body, no member added, removed or changed.
C2_JsonSuccessRelayed ==
  (ProxyDone /\ BackendSucceeded /\ JSONParse(beReply.body).t # "SyntaxError") =>
     /\ Ok(result.status)
     /\ result.body = JSONParse(beReply.body)

C2_Witness ==
  /\ ProxyDone
  /\ BackendSucceeded
  /\ result.status = 200
  /\ result.body.response = Str("hi")
  /\ result.body.session_id = Str("s1")

\* C3: when the backend replies non-2xx with a body that is not JSON, the
\* proxy's body is { detail: <the raw text> }, the generic default message
\* being used only when that text is empty.
C3_RawTextDetail ==
  (pc = "done" /\ handler = "route" /\ BackendFailed
     /\ JSONParse(beReply.body).t = "SyntaxError") =>
       result.body = DetailObject(IF beReply.body = ""
                                    THEN Str("Backend API error")
                                    ELSE Str(beReply.body))

\* C4: for every inbound request whose JSON body lacks the message/query
\* member, the proxy answers with a 4xx status and a non-empty detail.
\* (Stated for the requests that the backend answers with a 2xx JSON object,
\* so that the proxy's answer is the one it gives to the inbound body and not
\* the one it gives to a missing configuration or to a failing backend.)
C4_MissingMessageRejected ==
  (ProxyDone /\ BackendSucceeded /\ JSONParse(beReply.body).t = "object"
     /\ JSONParse(reqBody).t = "object"
     /\ JSONParse(reqBody).message = Undef /\ JSONParse(reqBody).query = Undef) =>
       /\ result.status >= 400 /\ result.status <= 499
       /\ NonEmptyStringDetail(result.body)

InboundNotJson == handler \in Proxies /\ JSONParse(reqBody).t = "SyntaxError"

GenericDetails ==
  { Str("Invalid JSON in request body"),
    Str("Internal Server Error"),
    Str("An internal server error occurred in the proxy.") }

C6_ErrorEnvelope ==
  (ProxyDone /\ ~Ok(result.status)) => NonEmptyStringDetail(result.body)

\* C7: when the backend base-URL variable is unset, neither the proxy nor
\* postChatMessage issues an outbound request, and the call ends in a hard
\* failure (a 500-class response, or a thrown error).
C7_UnsetEnvHardFailure ==
  (handler \in {"route_env", "api", "api_base"} /\ env = Undef) =>
     /\ outbound = <<>>
     /\ pc = "done" =>
          \/ result.kind = "thrown"
          \/ result.kind = "response" /\ result.status >= 500


(***************************************************************************)
(* Claims about the mode decision of MeOInterface, stated over Spec.       *)
(***************************************************************************)
LastAnswered == last.kind = "json"

C9_VendorCardGivesSolution ==
  (LastAnswered /\ last.mode = Undef /\ "vendor_card" \in last.types) =>
     viewMode = "solution"

\* C10: for every successful response with a graph_data source and no
\* explicit mode, the view mode after the send is analysis.
C10_GraphDataGivesAnalysis ==
  (LastAnswered /\ last.mode = Undef /\ "graph_data" \in last.types) =>
     viewMode = "analysis"

\* the source types on which the mode decision of the specification rests
TypedSources == {"vendor_card", "graph_data"}

\* the last response is a success without mode and without typed sources
NoSignal == LastAnswered /\ last.mode = Undef /\ last.types \cap TypedSources = {}

\* C11: when a successful response has no explicit mode and no typed sources
\* and its answer text contains one of graph, chart, curve, glucose, insulin,
\* kraft, pattern, spike, crash, the view mode after the send is analysis.
C11_AnswerKeywordGivesAnalysis ==
  (NoSignal /\ last.response.t = "string"
     /\ AnswerKeywordsIn(last.response.s) # {}) => viewMode = "analysis"

\* the last response came while the view was in analysis or solution
FromDashboard == last.kind # "none" /\ last.prior \in {"analysis", "solution"}

\* the answer of the last response matches no keyword
NoAnswerKeyword ==
  last.response.t = "string" /\ AnswerKeywordsIn(last.response.s) = {}

LastVendorTitles ==
  LET found == FoundVendors(last.sources)
  IN [k \in 1..Len(found) |-> found[k].title]

\* C13: after a successful response containing vendor_card sources, the
\* vendor list of the solution panel is exactly the vendor_card sources of
\* the response, in order, with no other entry.
C13_VendorListIsResponseVendors ==
  (LastAnswered /\ "vendor_card" \in last.types /\ viewMode = "solution")
     => VendorsShown = LastVendorTitles

\* a step in which the response of a send is handled
ResponseHandled == Len(pending') < Len(pending)

\* the payload of the graph_data source of a list of sources, parsed;
\* NoGraph when the list has no such source
GraphPayload(sources) ==
  IF FindGraphSource(sources) = 0 THEN NoGraph
  ELSE ParseGraph(sources[FindGraphSource(sources)].gap_solved)

\* C14: for every response whose graph_data source has a gap_solved payload
\* that is not valid JSON, the chart series after the send equals the series
\* held before it (from the initial state, the default 11-point series).
C14_BadPayloadKeepsSeries ==
  /\ (LastAnswered /\ GraphPayload(last.sources).t = "SyntaxError")
       => last.graphKept
  /\ (LastAnswered /\ GraphPayload(last.sources).t = "SyntaxError"
        /\ Len(messages) = 2) => graphData = kraftCurveDataDefault

\* such a response was handled in analysis mode as the first response, and
\* the series is the default one, of 11 points
C14_Witness ==
  /\ LastAnswered /\ last.mode = Str("analysis") /\ last.graphKept
  /\ GraphPayload(last.sources).t = "SyntaxError"
  /\ Len(messages) = 2
  /\ graphData = kraftCurveDataDefault /\ Len(graphData) = 11

\* a graph_data payload that is not JSON, or whose bio_age_data has no
\* records list
Malformed(sources) ==
  LET parsed == GraphPayload(sources)
  IN \/ parsed.t = "SyntaxError"
     \/ parsed.t = "object" /\ parsed.bio_age_data.present
          /\ ~parsed.bio_age_data.hasRecords

\* C15: for every successful response whose graph_data payload is malformed,
\* the backend's answer is the one assistant message appended for that send,
\* no connection-failure message is appended, and chart and biological-age
\* state are left unchanged.
C15_MalformedPayloadSilent ==
  [][(ResponseHandled /\ last'.kind = "json" /\ Malformed(last'.sources))
       => /\ messages' = Append(messages, [role |-> "assistant",
                                            content |-> last'.response])
          /\ UNCHANGED <<graphData, bioAgeMetrics, bioAgeTrajectory>>]_vars

\* the points that the payload GraphArray lists
GraphArrayPoints == << [time |-> "0hr", glucose |-> 90, insulin |-> 6] >>

\* the response handled in this step was handled in analysis mode
HandledInAnalysis ==
  /\ ResponseHandled
  /\ last'.kind = "json"
  /\ FinalMode([mode |-> last'.mode], last'.intendedMode) = "analysis"

\* C16: when a response handled in analysis mode has a graph_data source
\* whose payload parses to an array of {time, glucose, insulin} points, the
\* chart series after the send is that array of points.
C16_ArrayPayloadBecomesSeries ==
  [][(HandledInAnalysis /\ GraphPayload(last'.sources).t = "array")
       => graphData' = GraphArrayPoints]_vars

\* the record types of the bio-age records of a list of sources; {} when
\* the payload holds no records list
BioAgeRecordTypes(sources) ==
  LET bio == GraphPayload(sources).bio_age_data
  IN {bio.records[k].recordType : k \in 1..Len(bio.records)}

\* the payload of the sources holds a records list that lacks the CLINICAL
\* or the TARGET record
RecordMissing(sources) ==
  /\ GraphPayload(sources).t = "object"
  /\ GraphPayload(sources).bio_age_data.hasRecords
  /\ ~({"CLINICAL", "TARGET"} \subseteq BioAgeRecordTypes(sources))

C20_OneRequestInFlight ==
  [][(pending # <<>> /\ ~ResponseHandled) => UNCHANGED <<pending, messages>>]_vars

(***************************************************************************)
(* Claims about the helper functions, stated over SpecHelpers.              *)
(***************************************************************************)
\* the positions of the records of a type in the argument
RecordsOfType(type) == {i \in 1..Len(fnArg) : fnArg[i].recordType = type}

\* the first of a non-empty set of positions
First(positions) == CHOOSE i \in positions : \A j \in positions : i <= j

\* C17: baseline is the value of the first CLINICAL record (null if none),
\* target is the value of the first TARGET record (null if none), and
\* improvement is baseline - target when both records exist, also when a
\* value is 0, and null when either is absent.
C17_BioAgeMetrics ==
  (fn = "getBioAgeMetrics" /\ fnResult # <<>>) =>
    LET clinical == RecordsOfType("CLINICAL")
        target == RecordsOfType("TARGET")
        metrics == fnResult[1]
    IN /\ metrics.baseline = IF clinical = {} THEN NumNull
                              ELSE Num(fnArg[First(clinical)].value)
       /\ metrics.target = IF target = {} THEN NumNull
                            ELSE Num(fnArg[First(target)].value)
       /\ metrics.improvement =
            IF clinical = {} \/ target = {} THEN NumNull
            ELSE Num(fnArg[First(clinical)].value - fnArg[First(target)].value)

\* the function was called on a list whose second CLINICAL record differs
\* from the first and whose TARGET value is 0
C17_Witness ==
  /\ fn = "getBioAgeMetrics" /\ fnResult # <<>>
  /\ Cardinality(RecordsOfType("CLINICAL")) = 2
  /\ fnArg[1].recordType = "CLINICAL" /\ fnArg[1].value = 4520
  /\ \E i \in RecordsOfType("CLINICAL") : fnArg[i].value = 4000
  /\ \E i \in RecordsOfType("TARGET") : fnArg[i].value = 0
  /\ fnResult[1].improvement = Num(4520)

\* the distinct timestamps of the samples, ascending
RECURSIVE SortedTimes(_)
SortedTimes(times) ==
  IF times = {} THEN <<>>
  ELSE LET m == CHOOSE x \in times : \A y \in times : x <= y
       IN <<m>> \o SortedTimes(times \ {m})

\* the value of the last sample of `analyte` at `time`, 0 when there is none
LastValue(data, time, analyte) ==
  LET hits == {i \in 1..Len(data) : data[i].time = time /\ data[i].analyte = analyte}
  IN IF hits = {} THEN 0
     ELSE data[CHOOSE i \in hits : \A j \in hits : j <= i].value

\* C19: the output has one point per distinct sample timestamp, ordered by
\* ascending timestamp; point i (from 0) is labelled i*0.5 hr; its glucose
\* and insulin are the value of the last Glucose / Insulin sample at that
\* timestamp, or 0 when that analyte has no sample there.
C19_KraftChart ==
  (fn = "transformKraftForChart" /\ fnResult # <<>>) =>
    LET times == SortedTimes({fnArg[i].time : i \in 1..Len(fnArg)})
        chart == fnResult[1]
    IN /\ Len(chart) = Len(times)
       /\ \A k \in 1..Len(chart) :
            /\ chart[k].time =
                 <<"0.0hr", "0.5hr", "1.0hr", "1.5hr", "2.0hr">>[k]
            /\ chart[k].glucose = LastValue(fnArg, times[k], "Glucose")
            /\ chart[k].insulin = LastValue(fnArg, times[k], "Insulin")

\* the function was called on samples in descending order of time, with two
\* Glucose samples at one timestamp and only a Triglyceride sample at another
C19_Witness ==
  /\ fn = "transformKraftForChart" /\ fnResult # <<>>
  /\ fnArg = << [time |-> 60, analyte |-> "Glucose", value |-> 1],
                [time |-> 60, analyte |-> "Glucose", value |-> 2],
                [time |-> 30, analyte |-> "Triglyceride", value |-> 1] >>
  /\ fnResult[1] = << [time |-> "0.0hr", glucose |-> 0, insulin |-> 0],
                      [time |-> "0.5hr", glucose |-> 2, insulin |-> 0] >>

\* C21: for every send that fails (network error, reply that is not JSON,
\* or a status that is not 2xx), the messages appended when its request
\* settles are exactly the one fixed fallback assistant message.
C21_FailedSendGivesFallback ==
  (last.kind # "none" /\ ~last.ok) => last.appended = <<FallbackMessage>>

\* sequence a is a prefix of sequence b
IsPrefix(a, b) == Len(a) <= Len(b) /\ SubSeq(b, 1, Len(a)) = a

\* C23: the transcript is append-only: every step leaves the transcript it
\* found as a prefix of the transcript it leaves (so each earlier transcript
\* is a prefix of every later one).
C23_AppendOnly == [][IsPrefix(messages, messages')]_vars

\* a transcript that has grown by a send, its answer, a second send and the
\* fallback message of its failure
C23_Witness == Len(messages) = 4 /\ last.kind = "rejected" /\ pending = <<>>

\* C22: every chat request that is outstanding carries the session
\* identifier held in client-local storage.
C22_RequestCarriesStoredSession ==
  \A k \in 1..Len(pending) : Str(pending[k].session_id) = storage

\* the messages appended for the send completed last end with the fallback
EndedWithFallback ==
  last.appended # <<>> /\ last.appended[Len(last.appended)] = FallbackMessage

\* C24: the view mode differs from the one before the response handled last
\* only if that response was successful and its send did not end with the
\* fallback message.
C24_ViewModeChangesOnSuccessOnly ==
  (last.kind # "none" /\ viewMode # last.prior)
     => (last.ok /\ ~EndedWithFallback)

\* the number of messages of the transcript with the given role
CountRole(role) == Cardinality({k \in 1..Len(messages) : messages[k].role = role})

\* C26: the assistant messages are at most as many as the user messages,
\* they are as many when no request is outstanding, and the send completed
\* last has appended exactly one message.
C26_OneAssistantMessagePerSend ==
  /\ CountRole("assistant") <= CountRole("user")
  /\ pending = <<>> => CountRole("assistant") = CountRole("user")
  /\ last.kind # "none" => Len(last.appended) = 1

GraphExamined ==
  FinalMode([mode |-> last.mode], last.intendedMode) = "analysis"

\* C28: the sources of a successful response are searched for a graph
\* payload if and only if the view mode after that response is analysis.
C28_GraphReadIffAnalysisView ==
  LastAnswered => (GraphExamined <=> viewMode = "analysis")

\* C30: the loading flag is true exactly in the states in which a chat
\* request is outstanding.
C30_LoadingIffOutstanding == loading <=> (pending # <<>>)

(***************************************************************************)
(* Claims about interleaved sends of MeOInterface, stated over SpecBurst.  *)
(***************************************************************************)
\* C29: a response without explicit analysis/solution mode, to a message
\* that holds none of the words kraft, analyze, analysis, specialist, find,
\* leaves the view mode as it was when the response was handled.
C29_PlainSendKeepsMode ==
  (last.kind # "none" /\ KeywordsIn(last.messageText) = {}
     /\ last.mode \notin {Str("analysis"), Str("solution")})
       => viewMode = last.prior

(***************************************************************************)
(* Claims about the session-aware Chatbot, stated over SpecSession.        *)
(***************************************************************************)
\* C25: while the session identifier is not initialised no step issues a
\* chat request or changes the transcript.
C25_NoRequestBeforeSession ==
  [][~Truthy(sessionId) => UNCHANGED <<outbound, messages>>]_vars

====
